---------------------------- MODULE Spec2Model ----------------------------
(***************************************************************************)
(* Report matrix and compliance analysis engine of the energy-monitoring   *)
(* backend: the reading store, the date range expander, the matrix         *)
(* builder (populateDateSpecificData), the two compliance classifiers      *)
(* (ReportGenerationService.runComplianceChecks and the inline one of      *)
(* addAnalysisSheetsToWorkbook), the category router and the report        *)
(* handlers; the handlers that write readings with their history           *)
(* (SpecStore), the handlers of feeders and business hubs (SpecHierarchy)  *)
(* and the readings cache (SpecCache, SpecStale).                          *)
(*                                                                         *)
(* Time.  A Date is an integer number of ticks.  A calendar day (UTC) has  *)
(* DayLen ticks: tick 0 of a day is 00:00:00.000 and the last tick is      *)
(* 23:59:59.999, the two instants setUTCHours produces in the source.      *)
(*                                                                         *)
(* Numbers.  Energy values are integers; the comparisons against           *)
(* 0.7 * x and 1.3 * x are made exactly, as 10 * a < 7 * x and             *)
(* 10 * a > 13 * x.                                                        *)
(*                                                                         *)
(* Requests.  A handler runs as one step from the request to its response; *)
(* the workbook it built is local to the invocation and is released by     *)
(* FinishRequest before the next request is served.  In Spec every report  *)
(* finds the readings cache cold (requests further apart than CACHE_TTL),  *)
(* so its readings are the store's answer for its range; the cache and the *)
(* interleaving of the calls that share it are the subject of SpecCache.   *)
(***************************************************************************)
EXTENDS Integers, Sequences, FiniteSets, TLC

VARIABLES
    readings,             \* the FeederReading collection: a set of documents,
                          \* each with its history list
    pc,                   \* "idle", or "responded" while a response's document is held
    handler,              \* the handler that produced the current response
    status,               \* HTTP status of the current response (0: none)
    responses,            \* times the invocation called res.status(..).json
                          \* or wrote the workbook to res
    feeders,              \* feeders resolved for the run, in query order
    dates,                \* the dates array handed to populateFeederData
    rangeReadings,        \* the readings fetched for the run
    includeCompliance,    \* the flag handed to populateFeederData
    rows,                 \* 'Feeder Performance' rows from row 5 on
    failedChecksSummary,  \* the list populateFeederData / the router built
    sheets,               \* analysis sheet name -> data rows appended to it
    headers,              \* analysis sheet name -> the header block it holds
    summarySheet,         \* rows written to 'Failed Checks Summary' from row 6 on
    directory,            \* ids of the documents of the Feeder collection
    feederDocs,           \* Feeder id -> the businessHub and region it stores
    businessHubs,         \* BusinessHub id -> the region it stores
    request,              \* the inputs of the request being answered
    delivered,            \* what the invocation handed out, and how
    readingsCache,        \* FeederDataService.readingsCache: cacheKey -> readings
    cacheTimestamp,       \* FeederDataService.cacheTimestamp
    now,                  \* the clock Date.now() reads
    calls                 \* the getAllReadingsInRange calls in flight, per run

vars == <<readings, pc, handler, status, responses, feeders, dates, rangeReadings,
          includeCompliance, rows, failedChecksSummary, sheets, headers,
          summarySheet, directory, feederDocs, businessHubs, request, delivered,
          readingsCache, cacheTimestamp, now, calls>>

\* the Feeder and BusinessHub collections
hierarchyVars == <<directory, feederDocs, businessHubs>>

\* the state of FeederDataService's cache and of the calls that use it
cacheVars == <<readingsCache, cacheTimestamp, now, calls>>

-----------------------------------------------------------------------------
(* Bounds of the model *)

\* number of calendar days the model's clock covers
NumDays == 3

\* most documents the reading collection holds
MaxReadings == 2

\* clock steps a behaviour of the cache lasts
MaxElapsed == 2

\* most entries the history of one reading holds
MaxHistory == 3

\* instants of one calendar day the model tells apart: 0 is 00:00:00.000,
\* 1 is 23:59:59.999
TimesOfDay == {0, 1}

DayLen == Cardinality(TimesOfDay)

Timestamps == 0 .. (NumDays * DayLen - 1)

\* cumulativeEnergyConsumption values a request may carry (min: 0)
ReadingValues == {0, 90, 100, 150}

-----------------------------------------------------------------------------
(* The feeder directory.  The reports read the documents below; only the  *)
(* handlers of SpecHierarchy move a feeder or a hub, and no report runs   *)
(* there                                                                  *)

FeederIds == {"f1", "f2"}

RegionNames == {"R1", "R2", "R3"}

\* a feeder document with businessHub and region populated
FeederDoc(id) ==
    CASE id = "f1" -> [id |-> "f1", name |-> "Feeder A", businessHub |-> "H1",
                       region |-> "R1", band |-> "A20H",
                       dailyEnergyUptake |-> 100, monthlyDeliveryPlan |-> 3000]
      [] id = "f2" -> [id |-> "f2", name |-> "Feeder B", businessHub |-> "H2",
                       region |-> "R2", band |-> "B16H",
                       dailyEnergyUptake |-> 50, monthlyDeliveryPlan |-> 1500]

BusinessHubIds == {"H1", "H2"}

\* the region each business hub is created in
HubRegion(hub) == IF hub = "H1" THEN "R1" ELSE "R2"

\* a stored feeder with businessHub and region populated from what the
\* document stores
PopulatedFeeder(id) ==
    [FeederDoc(id) EXCEPT !.businessHub = feederDocs[id].businessHub,
                          !.region = feederDocs[id].region]

\* the order of the region ids, of the hub ids and of the feeder names
SortRank(x) ==
    CASE x \in {"R1", "H1", "f1"} -> 1
      [] x \in {"R2", "H2", "f2"} -> 2
      [] OTHER -> 3

\* the key of sort({ region: 1, businessHub: 1, name: 1 })
SortKey(id) ==
    100 * SortRank(feederDocs[id].region)
    + 10 * SortRank(feederDocs[id].businessHub)
    + SortRank(id)

RECURSIVE SortFeeders(_)
SortFeeders(ids) ==
    IF ids = {} THEN <<>>
    ELSE LET first == CHOOSE id \in ids :
                          \A other \in ids : SortKey(id) <= SortKey(other)
         IN  <<PopulatedFeeder(first)>> \o SortFeeders(ids \ {first})

\* Feeder.find(...).sort({region: 1, businessHub: 1, name: 1}) over all feeders
AllFeedersSorted == SortFeeders(directory)

\* the case-insensitive exact match new RegExp(`^${region}$`, 'i')
LowerCase(s) ==
    CASE s = "R1" -> "r1" [] s = "R2" -> "r2" [] s = "R3" -> "r3"
      [] OTHER -> s

NoFilter == "(none)"
\* the filter { _id: { $in: feederIds } } left out: every id passes
NoIdFilter == FeederIds
NotFound == "(not found)"

\* Region.findOne({ name: { $regex: ... } })
RegionFindOne(name) ==
    IF \E r \in RegionNames : LowerCase(r) = LowerCase(name)
    THEN CHOOSE r \in RegionNames : LowerCase(r) = LowerCase(name)
    ELSE NotFound

RECURSIVE SelectSeqBy(_, _)
SelectSeqBy(s, keep) ==
    IF s = <<>> THEN <<>>
    ELSE (IF Head(s).id \in keep THEN <<Head(s)>> ELSE <<>>)
         \o SelectSeqBy(Tail(s), keep)

\* FeederDataService.getFeedersWithPopulatedData(filter)
getFeedersWithPopulatedData(regionFilter, idFilter) ==
    SelectSeqBy(AllFeedersSorted,
        {id \in FeederIds :
            /\ id \in directory
            /\ (regionFilter = NoFilter \/ feederDocs[id].region = regionFilter)
            /\ id \in idFilter})

-----------------------------------------------------------------------------
(* Dates *)

\* the calendar day (UTC) a Date falls on
UTCDay(t) == t \div DayLen

\* formatDate: the key of the Date's calendar day
formatDate(t) == UTCDay(t)

\* date.setUTCHours(0, 0, 0, 0)
StartOfDay(t) == UTCDay(t) * DayLen

\* date.setUTCHours(23, 59, 59, 999)
EndOfDay(t) == UTCDay(t) * DayLen + (DayLen - 1)

\* prevDate.setUTCDate(prevDate.getUTCDate() - 1)
PreviousDay(t) == t - DayLen

RECURSIVE DatesFrom(_, _)
DatesFrom(currentDate, endDate) ==
    IF currentDate <= endDate
    THEN <<currentDate>> \o DatesFrom(currentDate + DayLen, endDate)
    ELSE <<>>

\* an expansion that steps from startDate as given, without setUTCHours
getDatesInRangeFromRawStart(startDate, endDate) == DatesFrom(startDate, endDate)

getDatesInRange(startDate, endDate) == DatesFrom(StartOfDay(startDate), endDate)

\* calculateDateRange(specificDate)
calculateDateRange(specificDate) ==
    [startDate |-> StartOfDay(specificDate), endDate |-> EndOfDay(specificDate)]

-----------------------------------------------------------------------------
(* The reading store *)

NoReading ==
    [feeder |-> "(none)", date |-> -1, cumulativeEnergyConsumption |-> -1,
     history |-> <<>>]

\* FeederReading.find({ date: { $gte: startDate, $lte: endDate } })
FindReadingsInRange(startDate, endDate) ==
    {r \in readings : r.date >= startDate /\ r.date <= endDate}

\* readingMap.get(dateKey) for the map built from one feeder's readings in
\* date order: a later reading of the same day overwrites an earlier one
ReadingMapGet(rs, feederId, dateKey) ==
    LET ofDay == {r \in rs : r.feeder = feederId /\ formatDate(r.date) = dateKey}
    IN  IF ofDay = {} THEN NoReading
        ELSE CHOOSE r \in ofDay : \A q \in ofDay : q.date <= r.date

-----------------------------------------------------------------------------
(* Matrix Builder: ReportGenerationService.populateDateSpecificData *)

\* a nomination counted from a 0-based day index
NominationZeroBased(feeder, dayIndex) == feeder.dailyEnergyUptake * (dayIndex - 1)

\* feeder.dailyEnergyUptake * (i + 1) for the 0-based loop index; dayIndex
\* here is the 1-based position of the day
Nomination(feeder, dayIndex) == feeder.dailyEnergyUptake * dayIndex

\* an actual that falls back to 0 instead of the carried value
ResolveActualNoCarry(reading, currentPrevActual) ==
    IF reading # NoReading THEN reading.cumulativeEnergyConsumption ELSE 0

\* reading ? reading.cumulativeEnergyConsumption : currentPrevActual
ResolveActual(reading, currentPrevActual) ==
    IF reading # NoReading THEN reading.cumulativeEnergyConsumption
    ELSE currentPrevActual

\* argb of the variance cell's fill
VarianceFill(variance) ==
    IF variance > 0 THEN "FFFF0000"
    ELSE IF variance < 0 THEN "FF00FF00" ELSE "FFFFFFFF"

RECURSIVE DateCells(_, _, _, _, _)
DateCells(feeder, ds, rs, dayIndex, currentPrevActual) ==
    IF dayIndex > Len(ds) THEN <<>>
    ELSE LET reading == ReadingMapGet(rs, feeder.id, formatDate(ds[dayIndex]))
             nomination == Nomination(feeder, dayIndex)
             actual == ResolveActual(reading, currentPrevActual)
             variance == actual - nomination
         IN  <<[nomination |-> nomination, actual |-> actual,
                variance |-> variance, fill |-> VarianceFill(variance)]>>
             \o DateCells(feeder, ds, rs, dayIndex + 1, actual)

populateDateSpecificData(feeder, ds, rs, prevActual) ==
    DateCells(feeder, ds, rs, 1, prevActual)

-----------------------------------------------------------------------------
(* Compliance Classifier: ReportGenerationService.runComplianceChecks *)

DeclineViolation == "Actual D-0 < Actual D-1"
NominationLow == "< 70% Nom"
NominationHigh == "> 130% Nom"
DailyUptakeLow == "< 70% Daily Uptake"
DailyUptakeHigh == "> 130% Daily Uptake"
PositiveVariance == "Positive Variance"
NoFlags == "No Flags"
FailedChecksSummarySheet == "Failed Checks Summary"

RuleLabels == {DeclineViolation, NominationLow, NominationHigh,
               DailyUptakeLow, DailyUptakeHigh}

\* analysisCategories
analysisCategories == <<DeclineViolation, NominationLow, NominationHigh,
                        DailyUptakeLow, DailyUptakeHigh, PositiveVariance,
                        NoFlags, FailedChecksSummarySheet>>

\* an upper threshold written with the lower factor
Above130WithLowerFactor(a, x) == 10 * a > 7 * x

\* a < 0.7 * x
Below70(a, x) == 10 * a < 7 * x

\* a > 1.3 * x
Above130(a, x) == 10 * a > 13 * x

\* a previous day's actual taken from the prevActual argument alone
PreviousDayActualFromArgument(rs, feederId, lastDate, dayIndex, prevActual) ==
    prevActual

\* the previous day's actual the classifier reads: the reading dated the
\* day before lastDate, or 0
PreviousDayActual(rs, feederId, lastDate, dayIndex, prevActual) ==
    IF dayIndex > 1
    THEN LET prevReading == ReadingMapGet(rs, feederId,
                                formatDate(PreviousDay(lastDate)))
         IN  IF prevReading # NoReading
             THEN prevReading.cumulativeEnergyConsumption ELSE 0
    ELSE prevActual

\* the checks proper, in the order they are pushed
RuleChecks(dailyEnergyUptake, dayIndex, actual, previousDayActual) ==
    LET nomination == dailyEnergyUptake * dayIndex
        dailyActual == actual - previousDayActual
    IN  (IF dayIndex > 1 /\ actual <= previousDayActual
         THEN <<DeclineViolation>> ELSE <<>>)
        \o (IF Below70(actual, nomination) THEN <<NominationLow>>
            ELSE IF Above130(actual, nomination) THEN <<NominationHigh>>
            ELSE <<>>)
        \o (IF dayIndex > 1
            THEN (IF Below70(dailyActual, dailyEnergyUptake)
                  THEN <<DailyUptakeLow>>
                  ELSE IF Above130(dailyActual, dailyEnergyUptake)
                  THEN <<DailyUptakeHigh>> ELSE <<>>)
            ELSE <<>>)

\* the early return: no reading on the last date, or a value <= 0
InsufficientData(lastReading) ==
    lastReading = NoReading \/ lastReading.cumulativeEnergyConsumption <= 0

runComplianceChecks(feeder, rs, ds, prevActual) ==
    IF ds = <<>> THEN <<>>
    ELSE LET lastDate == ds[Len(ds)]
             lastReading == ReadingMapGet(rs, feeder.id, formatDate(lastDate))
             dayIndex == Len(ds)
         IN  IF InsufficientData(lastReading) THEN <<>>
             ELSE RuleChecks(feeder.dailyEnergyUptake, dayIndex,
                      lastReading.cumulativeEnergyConsumption,
                      PreviousDayActual(rs, feeder.id, lastDate, dayIndex,
                                        prevActual))

-----------------------------------------------------------------------------
(* ReportGenerationService.populateFeederData *)

RECURSIVE RegionOrder(_, _)
\* keys of feedersByRegion, in insertion order
RegionOrder(fs, seen) ==
    IF fs = <<>> THEN <<>>
    ELSE IF Head(fs).region \in seen THEN RegionOrder(Tail(fs), seen)
    ELSE <<Head(fs).region>>
         \o RegionOrder(Tail(fs), seen \cup {Head(fs).region})

RegionFeeders(fs, regionName) == SelectSeq(fs, LAMBDA f : f.region = regionName)

\* the merged banner row A:G of a region
RegionHeaderRow(regionName) ==
    [kind |-> "region", region |-> regionName, feeder |-> "(none)",
     serial |-> 0, cells |-> <<>>]

\* a feeder row whose serial is always 1
FeederRowSerialOne(feeder, ds, rs, serial) ==
    [kind |-> "feeder", region |-> feeder.region, feeder |-> feeder.id,
     serial |-> 1, cells |-> populateDateSpecificData(feeder, ds, rs, 0)]

\* populateStaticFeederData and populateDateSpecificData for one feeder
FeederRow(feeder, ds, rs, serial) ==
    [kind |-> "feeder", region |-> feeder.region, feeder |-> feeder.id,
     serial |-> serial, cells |-> populateDateSpecificData(feeder, ds, rs, 0)]

RECURSIVE RegionBlocks(_, _, _, _, _)
RegionBlocks(regionNames, fs, ds, rs, feederSerial) ==
    IF regionNames = <<>> THEN <<>>
    ELSE LET regionFeeders == RegionFeeders(fs, Head(regionNames))
         IN  <<RegionHeaderRow(Head(regionNames))>>
             \o [k \in 1 .. Len(regionFeeders) |->
                    FeederRow(regionFeeders[k], ds, rs, feederSerial + k - 1)]
             \o RegionBlocks(Tail(regionNames), fs, ds, rs,
                             feederSerial + Len(regionFeeders))

RECURSIVE FailedEntries(_, _, _)
\* the entries pushed to failedChecksSummary, feeders taken in row order
FailedEntries(fs, ds, rs) ==
    IF fs = <<>> THEN <<>>
    ELSE LET feeder == Head(fs)
             feederFailedChecks == runComplianceChecks(feeder, rs, ds, 0)
         IN  (IF Len(feederFailedChecks) > 0
              THEN <<[feederName |-> feeder.name,
                      businessHub |-> feeder.businessHub,
                      region |-> feeder.region,
                      date |-> formatDate(ds[Len(ds)]),
                      failedChecks |-> feederFailedChecks]>>
              ELSE <<>>)
             \o FailedEntries(Tail(fs), ds, rs)

RECURSIVE Flatten(_)
Flatten(ss) == IF ss = <<>> THEN <<>> ELSE Head(ss) \o Flatten(Tail(ss))

\* the feeders in the order the region loop visits them
RowOrder(fs) ==
    LET regionNames == RegionOrder(fs, {})
    IN  Flatten([k \in 1 .. Len(regionNames) |-> RegionFeeders(fs, regionNames[k])])

populateFeederData(fs, ds, rs, withCompliance) ==
    [rows |-> RegionBlocks(RegionOrder(fs, {}), fs, ds, rs, 1),
     failedChecksSummary |->
         IF withCompliance THEN FailedEntries(RowOrder(fs), ds, rs) ELSE <<>>]

-----------------------------------------------------------------------------
(* Category Router: addAnalysisSheetsToWorkbook *)

\* the 1-based position of the first date whose key is dateKey, 0 when
\* there is none: dates.findIndex(d => formatDate(d) === lastDateStr) + 1
RECURSIVE FindIndexPlusOne(_, _, _)
FindIndexPlusOne(ds, dateKey, k) ==
    IF k > Len(ds) THEN 0
    ELSE IF formatDate(ds[k]) = dateKey THEN k
    ELSE FindIndexPlusOne(ds, dateKey, k + 1)

\* readingDates.sort().slice(-1)[0]: the greatest date key among the
\* feeder's fetched readings (keys are taken to sort in calendar order)
LastDateStr(rs, feederId) ==
    LET readingDates == {formatDate(r.date) : r \in {q \in rs : q.feeder = feederId}}
    IN  CHOOSE k \in readingDates : \A j \in readingDates : j <= k

\* the router's previousDayActual: the reading dated the day before the
\* feeder's last reading, or 0
InlinePreviousDayActual(rs, feederId, lastReading) ==
    LET prevReading == ReadingMapGet(rs, feederId,
                           formatDate(PreviousDay(lastReading.date)))
    IN  IF prevReading # NoReading
        THEN prevReading.cumulativeEnergyConsumption ELSE 0

\* the sheets one feeder's row is copied to, in copy order, and the entry
\* pushed to failedChecksSummary, as the router's inline checks decide them
RouteFeeder(feeder, rs, ds) ==
    IF {r \in rs : r.feeder = feeder.id} = {}
    THEN [copies |-> <<>>, failedChecks |-> <<>>, date |-> -1]
    ELSE
    LET lastDateStr == LastDateStr(rs, feeder.id)
        lastReading == ReadingMapGet(rs, feeder.id, lastDateStr)
        previousDayActual == InlinePreviousDayActual(rs, feeder.id, lastReading)
        dayIndex == FindIndexPlusOne(ds, lastDateStr, 1)
        nomination == feeder.dailyEnergyUptake * dayIndex
        actual == lastReading.cumulativeEnergyConsumption
        variance == actual - nomination
        dailyUptake == feeder.dailyEnergyUptake
        dailyActual == actual - previousDayActual
        failedChecks ==
            (IF dayIndex > 1 /\ actual <= previousDayActual
             THEN <<DeclineViolation>> ELSE <<>>)
            \o (IF 10 * actual < 7 * nomination THEN <<NominationLow>>
                ELSE IF 10 * actual > 13 * nomination THEN <<NominationHigh>>
                ELSE <<>>)
            \o (IF dayIndex > 1
                THEN (IF 10 * dailyActual < 7 * dailyUptake
                      THEN <<DailyUptakeLow>>
                      ELSE IF 10 * dailyActual > 13 * dailyUptake
                      THEN <<DailyUptakeHigh>> ELSE <<>>)
                ELSE <<>>)
    IN  IF actual > 0
        THEN [copies |-> failedChecks
                         \o (IF variance >= 0 THEN <<PositiveVariance>> ELSE <<>>)
                         \o (IF Len(failedChecks) = 0 THEN <<NoFlags>> ELSE <<>>),
              failedChecks |-> failedChecks,
              date |-> lastDateStr]
        ELSE [copies |-> <<>>, failedChecks |-> <<>>, date |-> lastDateStr]

\* rowIndex of the k-th feeder of RowOrder(fs): rows start at 5, every
\* region skips one row for its banner
RECURSIVE RowIndexOf(_, _, _, _)
RowIndexOf(order, k, j, rowIndex) ==
    LET bumped == IF j = 1 \/ order[j].region # order[j - 1].region
                  THEN rowIndex + 1 ELSE rowIndex
    IN  IF j = k THEN bumped ELSE RowIndexOf(order, k, j + 1, bumped + 1)

\* the source row copyRowToAnalysisSheet reads: row rowIndex of the main sheet
SourceRow(mainRows, rowIndex) ==
    IF rowIndex - 4 \in DOMAIN mainRows THEN mainRows[rowIndex - 4]
    ELSE [kind |-> "empty", region |-> "(none)", feeder |-> "(none)",
          serial |-> 0, cells |-> <<>>]

InSeq(x, s) == \E i \in DOMAIN s : s[i] = x

\* the data rows appended to one analysis sheet
RECURSIVE SheetRows(_, _, _, _, _, _)
SheetRows(category, order, k, mainRows, rs, ds) ==
    IF k > Len(order) THEN <<>>
    ELSE (IF InSeq(category, RouteFeeder(order[k], rs, ds).copies)
          THEN <<SourceRow(mainRows, RowIndexOf(order, k, 1, 5))>> ELSE <<>>)
         \o SheetRows(category, order, k + 1, mainRows, rs, ds)

RECURSIVE RouterEntries(_, _, _)
RouterEntries(order, rs, ds) ==
    IF order = <<>> THEN <<>>
    ELSE LET feeder == Head(order)
             routed == RouteFeeder(feeder, rs, ds)
         IN  (IF Len(routed.failedChecks) > 0
              THEN <<[feederName |-> feeder.name,
                      businessHub |-> feeder.businessHub,
                      region |-> feeder.region,
                      date |-> routed.date,
                      failedChecks |-> routed.failedChecks]>>
              ELSE <<>>)
             \o RouterEntries(Tail(order), rs, ds)

RECURSIVE Join(_, _)
\* Array.prototype.join(sep)
Join(labels, sep) ==
    IF labels = <<>> THEN ""
    ELSE IF Len(labels) = 1 THEN labels[1]
    ELSE labels[1] \o sep \o Join(Tail(labels), sep)

\* the five cells written per entry of failedChecksSummary
SummaryRows(entries) ==
    [k \in 1 .. Len(entries) |->
        [region |-> entries[k].region,
         businessHub |-> entries[k].businessHub,
         feederName |-> entries[k].feederName,
         date |-> entries[k].date,
         failedChecks |-> Join(entries[k].failedChecks, ", ")]]

\* populateFailedChecksSummary
populateFailedChecksSummary(entries) == SummaryRows(entries)

SheetNames == {analysisCategories[k] : k \in DOMAIN analysisCategories}

\* rows 1-4 of 'Feeder Performance' after setupDateHeaders: per date a label
\* in row 3, merged over three columns from column I on, and the three
\* sub-labels in row 4; the template's own cells are the same in every
\* workbook and are left out
HeaderBlock(ds) ==
    [labels |-> [k \in DOMAIN ds |-> formatDate(ds[k])],
     widths |-> [k \in DOMAIN ds |-> <<15, 15, 15>>],
     merges |-> {[top |-> 3, left |-> 9 + 4 * (k - 1), bottom |-> 3,
                  right |-> 11 + 4 * (k - 1)] : k \in DOMAIN ds},
     rowCount |-> 4]

\* ExcelService.copyHeadersToSheet: values and styles of rows 1-4, then the
\* column widths
copyHeadersToSheet(source) ==
    [labels |-> source.labels, widths |-> source.widths, merges |-> {},
     rowCount |-> 4]

\* the header loop of addAnalysisSheetsToWorkbook: values and styles of
\* rows 1-4, each merged range met at its top-left cell, the column widths
CopyHeaderBlock(source) ==
    [labels |-> source.labels, widths |-> source.widths,
     merges |-> {m \in source.merges : m.top >= 1 /\ m.top <= 4},
     rowCount |-> 4]

\* ExcelService.createAnalysisSheets: eight sheets holding the header block only
createAnalysisSheets == [c \in SheetNames |-> <<>>]

NoSheets == <<>>

\* the workbook addAnalysisSheetsToWorkbook leaves, given the main sheet's rows
addAnalysisSheetsToWorkbook(mainRows, fs, ds) ==
    LET allReadings == FindReadingsInRange(ds[1], ds[Len(ds)])
        order == RowOrder(fs)
    IN  [readings |-> allReadings,
         sheets |-> [c \in SheetNames |->
                        SheetRows(c, order, 1, mainRows, allReadings, ds)],
         headers |-> LET block == CopyHeaderBlock(HeaderBlock(ds))
                     IN  [c \in SheetNames |-> block],
         failedChecksSummary |-> RouterEntries(order, allReadings, ds),
         summarySheet |-> SummaryRows(RouterEntries(order, allReadings, ds))]

-----------------------------------------------------------------------------
(* Requests and responses *)

\* inputs of the handlers
-----------------------------------------------------------------------------
(* FeederDataService: the readings cache *)

\* CACHE_TTL = 5 * 60 * 1000 ms; the model's clock steps are 150 s long
CACHE_TTL == 2

\* the runs whose getAllReadingsInRange calls interleave
Runs == {"r1", "r2"}

Digit(n) ==
    CASE n = 0 -> "0" [] n = 1 -> "1" [] n = 2 -> "2" [] n = 3 -> "3"
      [] n = 4 -> "4" [] n = 5 -> "5" [] n = 6 -> "6" [] n = 7 -> "7"
      [] n = 8 -> "8" [] n = 9 -> "9"

\* Date.prototype.toISOString: the day, then the time of day to the ms
toISOString(t) ==
    "day" \o Digit(UTCDay(t)) \o
    (IF t % DayLen = 0 THEN "T00:00:00.000Z" ELSE "T23:59:59.999Z")

\* a key made of the start date alone
cacheKeyOfStart(startDate, endDate) == toISOString(startDate)

\* `${startDate.toISOString()}-${endDate.toISOString()}`
cacheKey(startDate, endDate) ==
    toISOString(startDate) \o "-" \o toISOString(endDate)

\* a validity test that looks at the key alone
CacheHasKey(key, cache, stamp, clock) == key \in DOMAIN cache

\* readingsCache.has(cacheKey) && (now - cacheTimestamp) < CACHE_TTL
CacheValid(key, cache, stamp, clock) ==
    key \in DOMAIN cache /\ (clock - stamp) < CACHE_TTL

\* readingsCache.clear(); readingsCache.set(cacheKey, readings)
CacheReplace(cache, key, entry) == [k \in {key} |-> entry]

\* a list of readings together with the arguments of the query that read
\* it from the store (the list itself does not carry them)
Fetched(rs, startDate, endDate) ==
    [readings |-> rs, startDate |-> startDate, endDate |-> endDate]

NoCall ==
    [pc |-> "idle", startDate |-> -1, endDate |-> -1, now |-> -1,
     source |-> "(none)", result |-> Fetched({}, -1, -1)]

\* getAllReadingsInRange up to its await: a valid entry is returned at once,
\* otherwise the query is sent
getAllReadingsInRange(run, startDate, endDate) ==
    /\ calls[run].pc = "idle"
    /\ LET key == cacheKey(startDate, endDate)
       IN  calls' = [calls EXCEPT ![run] =
               IF CacheValid(key, readingsCache, cacheTimestamp, now)
               THEN [pc |-> "returned", startDate |-> startDate,
                     endDate |-> endDate, now |-> now, source |-> "cache",
                     result |-> readingsCache[key]]
               ELSE [pc |-> "querying", startDate |-> startDate,
                     endDate |-> endDate, now |-> now, source |-> "store",
                     result |-> Fetched({}, -1, -1)]]
    /\ UNCHANGED <<readingsCache, cacheTimestamp, now>>
    /\ UNCHANGED <<readings, pc, handler, status, responses, feeders, dates,
                   rangeReadings, includeCompliance, rows, failedChecksSummary, sheets,
                   headers, summarySheet, hierarchyVars, request, delivered>>

\* FeederReading.find({ date: { $gte: startDate, $lte: endDate } }) is
\* answered by the store
StoreAnswers(run) ==
    /\ calls[run].pc = "querying"
    /\ calls' = [calls EXCEPT ![run].pc = "fetched",
                              ![run].result =
                                  Fetched(FindReadingsInRange(calls[run].startDate,
                                                              calls[run].endDate),
                                          calls[run].startDate, calls[run].endDate)]
    /\ UNCHANGED <<readingsCache, cacheTimestamp, now>>
    /\ UNCHANGED <<readings, pc, handler, status, responses, feeders, dates,
                   rangeReadings, includeCompliance, rows, failedChecksSummary, sheets,
                   headers, summarySheet, hierarchyVars, request, delivered>>

\* the continuation after the await: clear, set, stamp with the now read
\* before the await, return
UpdateCache(run) ==
    /\ calls[run].pc = "fetched"
    /\ readingsCache' = CacheReplace(readingsCache,
                             cacheKey(calls[run].startDate, calls[run].endDate),
                             calls[run].result)
    /\ cacheTimestamp' = calls[run].now
    /\ calls' = [calls EXCEPT ![run].pc = "returned"]
    /\ UNCHANGED now
    /\ UNCHANGED <<readings, pc, handler, status, responses, feeders, dates,
                   rangeReadings, includeCompliance, rows, failedChecksSummary, sheets,
                   headers, summarySheet, hierarchyVars, request, delivered>>

\* the caller takes the returned list; the run may call again
CallReturns(run) ==
    /\ calls[run].pc = "returned"
    /\ calls' = [calls EXCEPT ![run] = NoCall]
    /\ UNCHANGED <<readingsCache, cacheTimestamp, now>>
    /\ UNCHANGED <<readings, pc, handler, status, responses, feeders, dates,
                   rangeReadings, includeCompliance, rows, failedChecksSummary, sheets,
                   headers, summarySheet, hierarchyVars, request, delivered>>

\* time passes
Tick ==
    /\ now < CACHE_TTL + MaxElapsed
    /\ now' = now + 1
    /\ UNCHANGED <<readingsCache, cacheTimestamp, calls>>
    /\ UNCHANGED <<readings, pc, handler, status, responses, feeders, dates,
                   rangeReadings, includeCompliance, rows, failedChecksSummary, sheets,
                   headers, summarySheet, hierarchyVars, request, delivered>>

-----------------------------------------------------------------------------
(* Requests *)

DateInputs == Timestamps
RangeInputs == {se \in Timestamps \X Timestamps : se[1] \in {0, 1, DayLen}}
RegionInputs == {NoFilter, "r2", "R3", "RX"}
FeederIdInputs == {{"f1"}, {"f2"}, {"f1", "f2"}, {"f9"}}

\* the inputs a request carries; a handler that takes one date has it as
\* both ends
Request(startDate, endDate, region, includeAnalysis) ==
    [startDate |-> startDate, endDate |-> endDate, region |-> region,
     includeAnalysis |-> includeAnalysis]

NoRequest == Request(-1, -1, NoFilter, FALSE)

\* what an invocation hands out
NothingDelivered == "none"
DeliveredInResponse == "workbook written to the response"
DeliveredAsBuffer == "workbook buffer returned to the caller"
DeliveredByEmail == "workbook attached to an email"
EmptyAttachmentByEmail == "Buffer.alloc(0) attached to an email"

\* how a handler that writes its workbook to the response ends
Download == IF status' = 200 THEN DeliveredInResponse ELSE NothingDelivered

InitWith(feederIds) ==
    /\ directory = feederIds
    /\ feederDocs = [id \in feederIds |->
                         [businessHub |-> FeederDoc(id).businessHub,
                          region |-> FeederDoc(id).region]]
    /\ businessHubs = [hub \in BusinessHubIds |-> [region |-> HubRegion(hub)]]
    /\ request = NoRequest
    /\ delivered = NothingDelivered
    /\ readingsCache = [k \in {} |-> Fetched({}, -1, -1)]
    /\ cacheTimestamp = 0
    /\ now = CACHE_TTL
    /\ calls = [run \in Runs |-> NoCall]
    /\ readings = {}
    /\ pc = "idle"
    /\ handler = "(none)"
    /\ status = 0
    /\ responses = 0
    /\ feeders = <<>>
    /\ dates = <<>>
    /\ rangeReadings = {}
    /\ includeCompliance = FALSE
    /\ rows = <<>>
    /\ failedChecksSummary = <<>>
    /\ sheets = NoSheets
    /\ headers = NoSheets
    /\ summarySheet = <<>>

Init == InitWith(FeederIds)

\* how often handler h calls res.status(..).json or writes to res on the
\* path that ends with status st.  generateDailyAllFeedersReportBuffer
\* answers its 404 and 500 itself and returns the buffer without a word on
\* success; sendDailyAllFeedersReport goes on after the builder whatever it
\* did: res.status(200).json, and when that throws because the response is
\* sent, res.status(500).json in its catch block
ResponsesSent(h, st) ==
    CASE h = "generateDailyAllFeedersReportBuffer" /\ st = 200 -> 0
      [] h = "sendDailyAllFeedersReport" /\ st # 200 -> 3
      [] OTHER -> 1

\* res.status(st).json(...) of handler h: a response without a workbook
Respond(h, st) ==
    /\ pc' = "responded"
    /\ handler' = h
    /\ status' = st
    /\ responses' = ResponsesSent(h, st)
    /\ feeders' = <<>>
    /\ dates' = <<>>
    /\ rangeReadings' = {}
    /\ includeCompliance' = FALSE
    /\ rows' = <<>>
    /\ failedChecksSummary' = <<>>
    /\ sheets' = NoSheets
    /\ headers' = NoSheets
    /\ summarySheet' = <<>>

\* a response that carries no workbook, from a handler that leaves the
\* feeder hierarchy alone
RespondPlain(h, st) ==
    /\ Respond(h, st)
    /\ UNCHANGED <<hierarchyVars, cacheVars>>

\* a response that carries the workbook built from populateFeederData's result
RespondWorkbook(h, fs, ds, rs, withCompliance, withSummary) ==
    LET populated == populateFeederData(fs, ds, rs, withCompliance)
    IN  /\ pc' = "responded"
        /\ handler' = h
        /\ status' = 200
        /\ responses' = ResponsesSent(h, 200)
        /\ feeders' = fs
        /\ dates' = ds
        /\ rangeReadings' = rs
        /\ includeCompliance' = withCompliance
        /\ rows' = populated.rows
        /\ failedChecksSummary' = populated.failedChecksSummary
        /\ sheets' = createAnalysisSheets
        /\ headers' = LET block == copyHeadersToSheet(HeaderBlock(ds))
                      IN  [c \in SheetNames |-> block]
        /\ summarySheet' = IF withSummary
                           THEN populateFailedChecksSummary(populated.failedChecksSummary)
                           ELSE <<>>
        /\ UNCHANGED <<hierarchyVars, cacheVars>>

\* the handler returns: its workbook is released
FinishRequest ==
    /\ pc = "responded"
    /\ pc' = "idle"
    /\ handler' = "(none)"
    /\ status' = 0
    /\ responses' = 0
    /\ feeders' = <<>>
    /\ dates' = <<>>
    /\ rangeReadings' = {}
    /\ includeCompliance' = FALSE
    /\ rows' = <<>>
    /\ failedChecksSummary' = <<>>
    /\ sheets' = NoSheets
    /\ headers' = NoSheets
    /\ summarySheet' = <<>>
    /\ request' = NoRequest
    /\ delivered' = NothingDelivered
    /\ UNCHANGED <<readings, hierarchyVars, cacheVars>>

createFeederReading(feederId, date, cumulativeEnergyConsumption) ==
    /\ pc = "idle"
    /\ IF \E r \in readings : r.feeder = feederId /\ r.date = date
       THEN \* the unique index { feeder: 1, date: 1 } rejects the insert
            /\ RespondPlain("createFeederReading", 500)
            /\ UNCHANGED readings
       ELSE /\ Cardinality(readings) < MaxReadings
            /\ readings' = readings \cup
                   {[feeder |-> feederId, date |-> date,
                     cumulativeEnergyConsumption |-> cumulativeEnergyConsumption,
                     history |-> <<>>]}
            /\ RespondPlain("createFeederReading", 201)
    /\ request' = NoRequest
    /\ delivered' = NothingDelivered

\* a delete that also empties the readings cache
deleteFeederReadingClearingCache(reading) ==
    /\ pc = "idle"
    /\ reading \in readings
    /\ readings' = readings \ {reading}
    /\ Respond("deleteFeederReading", 200)
    /\ readingsCache' = [k \in {} |-> Fetched({}, -1, -1)]
    /\ request' = NoRequest
    /\ delivered' = NothingDelivered
    /\ UNCHANGED <<hierarchyVars, cacheTimestamp, now, calls>>

deleteFeederReading(reading) ==
    /\ pc = "idle"
    /\ reading \in readings
    /\ readings' = readings \ {reading}
    /\ RespondPlain("deleteFeederReading", 200)
    /\ request' = NoRequest
    /\ delivered' = NothingDelivered

\* a history that keeps the latest snapshot only
KeepLatestSnapshot(doc) ==
    [doc EXCEPT !.history =
         <<[date |-> doc.date,
            cumulativeEnergyConsumption |-> doc.cumulativeEnergyConsumption]>>]

\* the entry addToHistory pushes: the document's date and value as they are
\* when it runs (updatedAt and updatedBy are not modelled)
addToHistory(doc) ==
    [doc EXCEPT !.history =
         Append(doc.history,
                [date |-> doc.date,
                 cumulativeEnergyConsumption |-> doc.cumulativeEnergyConsumption])]

\* FeederReadingSchema.pre('save') for a document that is not new
PreSave(doc, valueModified) ==
    IF valueModified THEN addToHistory(doc) ELSE doc

\* what updateFeederReading saves: the snapshot it pushes itself, the new
\* value, then the pre-save hook; isModified compares the value with the
\* one that was loaded
SavedUpdate(reading, cumulativeEnergyConsumption) ==
    PreSave([addToHistory(reading) EXCEPT
                 !.cumulativeEnergyConsumption = cumulativeEnergyConsumption],
            cumulativeEnergyConsumption # reading.cumulativeEnergyConsumption)

\* findById yields the document or null (NoReading)
updateFeederReading(reading, cumulativeEnergyConsumption) ==
    /\ pc = "idle"
    /\ IF reading \notin readings
       THEN /\ RespondPlain("updateFeederReading", 404)
            /\ UNCHANGED readings
       ELSE LET saved == SavedUpdate(reading, cumulativeEnergyConsumption)
            IN  /\ Len(saved.history) <= MaxHistory
                /\ readings' = (readings \ {reading}) \cup {saved}
                /\ RespondPlain("updateFeederReading", 200)
    /\ request' = NoRequest
    /\ delivered' = NothingDelivered

\* what the update branch of submitTodayReadings saves at instant clock
SavedSubmission(existing, cumulativeEnergyConsumption, clock) ==
    PreSave([addToHistory(existing) EXCEPT
                 !.cumulativeEnergyConsumption = cumulativeEnergyConsumption,
                 !.date = clock],
            cumulativeEnergyConsumption # existing.cumulativeEnergyConsumption)

\* the unique index { feeder: 1, date: 1 } refuses doc in store
DuplicateKey(store, doc) ==
    \E r \in store : r.feeder = doc.feeder /\ r.date = doc.date

\* insertMany (ordered): the documents are inserted one by one up to the
\* first duplicate key
RECURSIVE insertMany(_, _, _)
insertMany(store, docs, k) ==
    IF k > Len(docs) THEN [store |-> store, status |-> 200]
    ELSE IF DuplicateKey(store, docs[k]) THEN [store |-> store, status |-> 500]
    ELSE insertMany(store \cup {docs[k]}, docs, k + 1)

\* the loop of submitTodayReadings from entry k on, then insertMany: the
\* set of outcomes, one per choice findOne can make among the documents
\* of the feeder dated today; times[k] is what new Date() reads for entry k
RECURSIVE SubmitFrom(_, _, _, _, _, _, _)
SubmitFrom(store, entriesToInsert, entries, times, todayStart, todayEnd, k) ==
    IF k > Len(entries) THEN {insertMany(store, entriesToInsert, 1)}
    ELSE
      LET entry == entries[k]
          today == {r \in store : /\ r.feeder = entry.feeder
                                  /\ r.date >= todayStart
                                  /\ r.date <= todayEnd}
      IN  IF today = {}
          THEN SubmitFrom(store,
                          Append(entriesToInsert,
                                 [feeder |-> entry.feeder, date |-> times[k],
                                  cumulativeEnergyConsumption |->
                                      entry.cumulativeEnergyConsumption,
                                  history |-> <<>>]),
                          entries, times, todayStart, todayEnd, k + 1)
          ELSE UNION {
                 LET saved == SavedSubmission(existing,
                                  entry.cumulativeEnergyConsumption, times[k])
                 IN  IF DuplicateKey(store \ {existing}, saved)
                     THEN {[store |-> store, status |-> 500]}
                     ELSE SubmitFrom((store \ {existing}) \cup {saved},
                                     entriesToInsert, entries, times,
                                     todayStart, todayEnd, k + 1)
                 : existing \in today }

\* submitTodayReadings for a request that arrives at instant clock (server
\* time zone UTC) and whose entries are handled at the instants times
submitTodayReadings(clock, entries, times) ==
    /\ pc = "idle"
    /\ IF Len(entries) = 0
       THEN /\ RespondPlain("submitTodayReadings", 400)
            /\ UNCHANGED readings
       ELSE \E outcome \in SubmitFrom(readings, <<>>, entries, times,
                                      StartOfDay(clock), EndOfDay(clock), 1) :
              /\ Cardinality(outcome.store) <= MaxReadings
              /\ \A r \in outcome.store : Len(r.history) <= MaxHistory
              /\ readings' = outcome.store
              /\ RespondPlain("submitTodayReadings", outcome.status)
    /\ request' = NoRequest
    /\ delivered' = NothingDelivered

\* the handlers of the feeder hierarchy.  Names are distinct, so the
\* duplicate-name checks of the handlers and of the pre-save hooks pass

\* f with the value v at x, x added to its domain if need be
Put(f, x, v) == [y \in DOMAIN f \cup {x} |-> IF y = x THEN v ELSE f[y]]

\* f without x
Remove(f, x) == [y \in DOMAIN f \ {x} |-> f[y]]

\* the handler answered st and changed nothing
Refuse(h, st) ==
    /\ Respond(h, st)
    /\ UNCHANGED hierarchyVars

\* createFeeder: the feeder takes the region of the hub it is created in;
\* feederSchema.pre('save') finds the hub and the two regions equal
createFeeder(id, businessHub) ==
    /\ pc = "idle"
    /\ id \notin directory
    /\ IF businessHub \notin DOMAIN businessHubs
       THEN Refuse("createFeeder", 404)
       ELSE /\ directory' = directory \cup {id}
            /\ feederDocs' = Put(feederDocs, id,
                                 [businessHub |-> businessHub,
                                  region |-> businessHubs[businessHub].region])
            /\ UNCHANGED businessHubs
            /\ Respond("createFeeder", 201)
    /\ request' = NoRequest
    /\ delivered' = NothingDelivered
    /\ UNCHANGED <<readings, cacheVars>>

\* updateFeeder with a businessHub in the body: findByIdAndUpdate writes
\* the hub and the hub's region
updateFeeder(id, businessHub) ==
    /\ pc = "idle"
    /\ IF businessHub \notin DOMAIN businessHubs
       THEN Refuse("updateFeeder", 400)
       ELSE IF id \notin directory
       THEN Refuse("updateFeeder", 404)
       ELSE /\ feederDocs' = Put(feederDocs, id,
                                 [businessHub |-> businessHub,
                                  region |-> businessHubs[businessHub].region])
            /\ UNCHANGED <<directory, businessHubs>>
            /\ Respond("updateFeeder", 200)
    /\ request' = NoRequest
    /\ delivered' = NothingDelivered
    /\ UNCHANGED <<readings, cacheVars>>

deleteFeeder(id) ==
    /\ pc = "idle"
    /\ IF id \notin directory
       THEN Refuse("deleteFeeder", 404)
       ELSE /\ directory' = directory \ {id}
            /\ feederDocs' = Remove(feederDocs, id)
            /\ UNCHANGED businessHubs
            /\ Respond("deleteFeeder", 200)
    /\ request' = NoRequest
    /\ delivered' = NothingDelivered
    /\ UNCHANGED <<readings, cacheVars>>

createBusinessHub(id, regionId) ==
    /\ pc = "idle"
    /\ id \notin DOMAIN businessHubs
    /\ IF regionId \notin RegionNames
       THEN Refuse("createBusinessHub", 400)
       ELSE /\ businessHubs' = Put(businessHubs, id, [region |-> regionId])
            /\ UNCHANGED <<directory, feederDocs>>
            /\ Respond("createBusinessHub", 201)
    /\ request' = NoRequest
    /\ delivered' = NothingDelivered
    /\ UNCHANGED <<readings, cacheVars>>

\* updateBusinessHub with a regionId in the body: findByIdAndUpdate writes
\* the hub document; no Feeder document is read or written
updateBusinessHub(id, regionId) ==
    /\ pc = "idle"
    /\ IF id \notin DOMAIN businessHubs
       THEN Refuse("updateBusinessHub", 404)
       ELSE IF regionId \notin RegionNames
       THEN Refuse("updateBusinessHub", 400)
       ELSE /\ businessHubs' = Put(businessHubs, id, [region |-> regionId])
            /\ UNCHANGED <<directory, feederDocs>>
            /\ Respond("updateBusinessHub", 200)
    /\ request' = NoRequest
    /\ delivered' = NothingDelivered
    /\ UNCHANGED <<readings, cacheVars>>

deleteBusinessHub(id) ==
    /\ pc = "idle"
    /\ IF id \notin DOMAIN businessHubs
       THEN Refuse("deleteBusinessHub", 404)
       ELSE /\ businessHubs' = Remove(businessHubs, id)
            /\ UNCHANGED <<directory, feederDocs>>
            /\ Respond("deleteBusinessHub", 200)
    /\ request' = NoRequest
    /\ delivered' = NothingDelivered
    /\ UNCHANGED <<readings, cacheVars>>

\* the steps every report handler takes once feeders and range are resolved;
\* with no date in range and compliance requested, formatDate is applied to
\* dates[-1], which is undefined: the call either throws (500) or yields a
\* key no reading has
BuildReport(h, fs, startDate, endDate, ds, withCompliance, withSummary) ==
    LET rs == FindReadingsInRange(startDate, endDate)
    IN  IF fs = <<>> THEN RespondPlain(h, 404)
        ELSE IF ds = <<>> /\ withCompliance
        THEN \/ RespondPlain(h, 500)
             \/ RespondWorkbook(h, fs, ds, rs, withCompliance, withSummary)
        ELSE RespondWorkbook(h, fs, ds, rs, withCompliance, withSummary)

generateDailyAllFeedersReportBuffer(specificDate) ==
    /\ pc = "idle"
    /\ LET range == calculateDateRange(specificDate)
       IN  BuildReport("generateDailyAllFeedersReportBuffer",
               getFeedersWithPopulatedData(NoFilter, NoIdFilter),
               range.startDate, range.endDate,
               getDatesInRange(range.startDate, range.endDate), TRUE, TRUE)
    /\ request' = Request(specificDate, specificDate, NoFilter, TRUE)
    /\ delivered' = IF status' = 200 THEN DeliveredAsBuffer ELSE NothingDelivered
    /\ UNCHANGED readings

\* sendDailyAllFeedersReport: whatever buffer the builder returned is mailed;
\* the mail transport accepts every message.  After a 404 or 500 of the
\* builder the response is already sent and keeps that status
sendDailyAllFeedersReport(specificDate) ==
    /\ pc = "idle"
    /\ LET range == calculateDateRange(specificDate)
       IN  BuildReport("sendDailyAllFeedersReport",
               getFeedersWithPopulatedData(NoFilter, NoIdFilter),
               range.startDate, range.endDate,
               getDatesInRange(range.startDate, range.endDate), TRUE, TRUE)
    /\ request' = Request(specificDate, specificDate, NoFilter, TRUE)
    /\ delivered' = IF status' = 200 THEN DeliveredByEmail
                    ELSE EmptyAttachmentByEmail
    /\ UNCHANGED readings

generateSpecificDateReport(date, region) ==
    /\ pc = "idle"
    /\ LET regionDoc == IF region = NoFilter THEN NoFilter ELSE RegionFindOne(region)
       IN  IF regionDoc = NotFound
           THEN RespondPlain("generateSpecificDateReport", 404)
           ELSE BuildReport("generateSpecificDateReport",
                    getFeedersWithPopulatedData(regionDoc, NoIdFilter),
                    StartOfDay(date), EndOfDay(date), <<date>>, TRUE, FALSE)
    /\ request' = Request(date, date, region, TRUE)
    /\ delivered' = Download
    /\ UNCHANGED readings

generateFeederSpecificReport(feederIds, startDate, endDate) ==
    /\ pc = "idle"
    /\ BuildReport("generateFeederSpecificReport",
           getFeedersWithPopulatedData(NoFilter, feederIds),
           startDate, endDate, getDatesInRange(startDate, endDate), TRUE, FALSE)
    /\ request' = Request(startDate, endDate, NoFilter, TRUE)
    /\ delivered' = Download
    /\ UNCHANGED readings

sendReportByEmail(startDate, endDate, region, includeAnalysis) ==
    /\ pc = "idle"
    /\ LET regionDoc == IF region = NoFilter THEN NoFilter ELSE RegionFindOne(region)
       IN  BuildReport("sendReportByEmail",
               getFeedersWithPopulatedData(
                   IF regionDoc = NotFound THEN NoFilter ELSE regionDoc, NoIdFilter),
               startDate, endDate, getDatesInRange(startDate, endDate),
               includeAnalysis, FALSE)
    /\ request' = Request(startDate, endDate, region, includeAnalysis)
    /\ delivered' = IF status' = 200 THEN DeliveredByEmail ELSE NothingDelivered
    /\ UNCHANGED readings

generateCustomReport(startDate, endDate, region, includeAnalysis) ==
    /\ pc = "idle"
    /\ LET regionDoc == IF region = NoFilter THEN NoFilter ELSE RegionFindOne(region)
       IN  BuildReport("generateCustomReport",
               getFeedersWithPopulatedData(
                   IF regionDoc = NotFound THEN NoFilter ELSE regionDoc, NoIdFilter),
               startDate, endDate, getDatesInRange(startDate, endDate),
               includeAnalysis, FALSE)
    /\ request' = Request(startDate, endDate, region, includeAnalysis)
    /\ delivered' = Download
    /\ UNCHANGED readings

\* addAnalysisSheetsToWorkbook applied to a workbook that holds no analysis
\* sheet yet and whose 'Feeder Performance' sheet was populated for the same
\* feeders and dates, from the readings between the first and the last date
AnalysisReport(feederIds, startDate, endDate) ==
    /\ pc = "idle"
    /\ LET fs == getFeedersWithPopulatedData(NoFilter, feederIds)
           ds == getDatesInRange(startDate, endDate)
           mainRows == IF ds = <<>> THEN <<>>
                       ELSE populateFeederData(fs, ds,
                                FindReadingsInRange(ds[1], ds[Len(ds)]), FALSE).rows
       IN  /\ fs # <<>>
           /\ ds # <<>>
           /\ LET wb == addAnalysisSheetsToWorkbook(mainRows, fs, ds)
              IN  /\ pc' = "responded"
                  /\ handler' = "addAnalysisSheetsToWorkbook"
                  /\ status' = 200
                  /\ responses' = 0
                  /\ feeders' = fs
                  /\ dates' = ds
                  /\ rangeReadings' = wb.readings
                  /\ includeCompliance' = TRUE
                  /\ rows' = mainRows
                  /\ failedChecksSummary' = wb.failedChecksSummary
                  /\ sheets' = wb.sheets
                  /\ headers' = wb.headers
                  /\ summarySheet' = wb.summarySheet
    /\ request' = Request(startDate, endDate, NoFilter, TRUE)
    /\ delivered' = NothingDelivered
    /\ UNCHANGED <<readings, hierarchyVars, cacheVars>>

Next ==
    \/ FinishRequest
    \/ \E f \in FeederIds, d \in Timestamps, v \in ReadingValues :
           createFeederReading(f, d, v)
    \/ \E r \in readings : deleteFeederReading(r)
    \/ \E d \in DateInputs : generateDailyAllFeedersReportBuffer(d)
    \/ \E d \in DateInputs : sendDailyAllFeedersReport(d)
    \/ \E d \in DateInputs, g \in RegionInputs : generateSpecificDateReport(d, g)
    \/ \E ids \in FeederIdInputs, se \in RangeInputs :
           generateFeederSpecificReport(ids, se[1], se[2])
    \/ \E se \in RangeInputs, g \in RegionInputs, a \in BOOLEAN :
           sendReportByEmail(se[1], se[2], g, a)
    \/ \E se \in RangeInputs, g \in RegionInputs, a \in BOOLEAN :
           generateCustomReport(se[1], se[2], g, a)
    \/ \E ids \in FeederIdInputs, se \in RangeInputs :
           AnalysisReport(ids, se[1], se[2])

Spec == Init /\ [][Next]_vars

\* The Date Range Expander under every pair of instants: the handlers that
\* expand a range or a date, over a store of at most one reading
AllRanges == Timestamps \X Timestamps

NextRange ==
    \/ FinishRequest
    \/ \E f \in FeederIds, d \in Timestamps, v \in ReadingValues :
           /\ readings = {}
           /\ createFeederReading(f, d, v)
    \/ \E r \in readings : deleteFeederReading(r)
    \/ \E d \in DateInputs : generateDailyAllFeedersReportBuffer(d)
    \/ \E ids \in FeederIdInputs, se \in AllRanges :
           generateFeederSpecificReport(ids, se[1], se[2])
    \/ \E se \in AllRanges, a \in BOOLEAN :
           generateCustomReport(se[1], se[2], NoFilter, a)

SpecRange == Init /\ [][NextRange]_vars

\* The entry points over a Feeder collection that holds no document, and a
\* store of at most one reading
InitNoFeeders == InitWith({})

NextNoFeeders ==
    \/ FinishRequest
    \/ \E f \in FeederIds, d \in Timestamps, v \in ReadingValues :
           /\ readings = {}
           /\ createFeederReading(f, d, v)
    \/ \E r \in readings : deleteFeederReading(r)
    \/ \E d \in DateInputs : generateDailyAllFeedersReportBuffer(d)
    \/ \E d \in DateInputs : sendDailyAllFeedersReport(d)
    \/ \E d \in DateInputs, g \in RegionInputs : generateSpecificDateReport(d, g)
    \/ \E ids \in FeederIdInputs, se \in RangeInputs :
           generateFeederSpecificReport(ids, se[1], se[2])
    \/ \E se \in RangeInputs, g \in RegionInputs, a \in BOOLEAN :
           sendReportByEmail(se[1], se[2], g, a)
    \/ \E se \in RangeInputs, g \in RegionInputs, a \in BOOLEAN :
           generateCustomReport(se[1], se[2], g, a)

SpecNoFeeders == InitNoFeeders /\ [][NextNoFeeders]_vars

\* The readings cache under interleaved calls of two runs, over a store
\* that holds at most one reading of feeder f1 at the start of a day; the
\* two ranges start at the same instant
CacheRanges == {<<0, DayLen - 1>>, <<0, 2 * DayLen - 1>>}

NextCache ==
    \/ FinishRequest
    \/ \E d \in {0, DayLen} :
           /\ readings = {}
           /\ createFeederReading("f1", d, 100)
    \/ \E r \in readings : deleteFeederReading(r)
    \/ \E run \in Runs, se \in CacheRanges :
           getAllReadingsInRange(run, se[1], se[2])
    \/ \E run \in Runs : StoreAnswers(run)
    \/ \E run \in Runs : UpdateCache(run)
    \/ \E run \in Runs : CallReturns(run)
    \/ Tick

SpecCache == Init /\ [][NextCache]_vars

\* The reading store under its four mutating handlers, for the readings
\* of one feeder on the first day.  A submission carries up to two
\* entries and is served within one calendar day: the instants new Date()
\* reads do not decrease and stay on the day of the request
StoreValues == {100, 150}

StoreDates == 0 .. (DayLen - 1)

SubmittedEntries ==
    UNION {[1 .. n -> [feeder : {"f1"},
                       cumulativeEnergyConsumption : StoreValues]]
           : n \in 0 .. 2}

HandlingTimes(clock, n) ==
    {times \in [1 .. n -> clock .. EndOfDay(clock)] :
         \A i \in 1 .. n, j \in 1 .. n : i <= j => times[i] <= times[j]}

NextStore ==
    \/ FinishRequest
    \/ \E d \in StoreDates, v \in StoreValues :
           createFeederReading("f1", d, v)
    \/ \E r \in readings \cup {NoReading}, v \in StoreValues :
           updateFeederReading(r, v)
    \/ \E r \in readings : deleteFeederReading(r)
    \/ \E clock \in StoreDates, entries \in SubmittedEntries :
           \E times \in HandlingTimes(clock, Len(entries)) :
               submitTodayReadings(clock, entries, times)

SpecStore == Init /\ [][NextStore]_vars

\* The feeder hierarchy under the handlers that create, move and delete
\* feeders and business hubs; the Region collection holds RegionNames
RegionIdInputs == {"R1", "R2", "RX"}

NextHierarchy ==
    \/ FinishRequest
    \/ \E id \in FeederIds, hub \in BusinessHubIds : createFeeder(id, hub)
    \/ \E id \in FeederIds, hub \in BusinessHubIds : updateFeeder(id, hub)
    \/ \E id \in FeederIds : deleteFeeder(id)
    \/ \E id \in BusinessHubIds, regionId \in RegionIdInputs :
           createBusinessHub(id, regionId)
    \/ \E id \in BusinessHubIds, regionId \in RegionIdInputs :
           updateBusinessHub(id, regionId)
    \/ \E id \in BusinessHubIds : deleteBusinessHub(id)

SpecHierarchy == Init /\ [][NextHierarchy]_vars

\* The layout of the 'Feeder Performance' sheet while feeders are moved
\* between hubs, deleted and created again; the store holds at most one
\* reading, taken at the start of the first day
LayoutRanges == {<<0, DayLen - 1>>, <<0, 2 * DayLen - 1>>}

NextLayout ==
    \/ FinishRequest
    \/ \E id \in FeederIds, hub \in BusinessHubIds : createFeeder(id, hub)
    \/ \E id \in FeederIds, hub \in BusinessHubIds : updateFeeder(id, hub)
    \/ \E id \in FeederIds : deleteFeeder(id)
    \/ \E f \in FeederIds :
           /\ readings = {}
           /\ createFeederReading(f, 0, 100)
    \/ \E r \in readings : deleteFeederReading(r)
    \/ \E ids \in FeederIdInputs, se \in LayoutRanges :
           generateFeederSpecificReport(ids, se[1], se[2])
    \/ \E region \in {NoFilter, "r2"}, se \in LayoutRanges :
           generateCustomReport(se[1], se[2], region, FALSE)

SpecLayout == Init /\ [][NextLayout]_vars

\* The readings cache while the store changes under it: the calls of one
\* run for the first day's range, and a reading of feeder f1 on that day
\* that is created, submitted again, updated and deleted
StaleRange == <<0, DayLen - 1>>

StaleRuns == {"r1"}

NextStale ==
    \/ FinishRequest
    \/ /\ readings = {}
       /\ createFeederReading("f1", 0, 100)
    \/ \E r \in readings : updateFeederReading(r, 150)
    \/ \E r \in readings : deleteFeederReading(r)
    \/ submitTodayReadings(0, <<[feeder |-> "f1",
                                 cumulativeEnergyConsumption |-> 100]>>, <<1>>)
    \/ \E run \in StaleRuns :
           getAllReadingsInRange(run, StaleRange[1], StaleRange[2])
    \/ \E run \in StaleRuns : StoreAnswers(run)
    \/ \E run \in StaleRuns : UpdateCache(run)
    \/ \E run \in StaleRuns : CallReturns(run)
    \/ Tick

SpecStale == Init /\ [][NextStale]_vars

\* The same handlers over a store that holds the readings of one feeder at
\* a time, reported for that feeder over ranges that start on the first day:
\* the matrix builder and both classifiers work feeder by feeder
OneFeederRanges == {se \in RangeInputs : UTCDay(se[1]) = 0}

NextOneFeeder ==
    \/ FinishRequest
    \/ \E f \in FeederIds, d \in Timestamps, v \in ReadingValues :
           /\ \A r \in readings : r.feeder = f
           /\ createFeederReading(f, d, v)
    \/ \E r \in readings : deleteFeederReading(r)
    \/ \E f \in FeederIds, se \in OneFeederRanges :
           /\ \A r \in readings : r.feeder = f
           /\ generateFeederSpecificReport({f}, se[1], se[2])
    \/ \E f \in FeederIds, se \in OneFeederRanges :
           /\ \A r \in readings : r.feeder = f
           /\ AnalysisReport({f}, se[1], se[2])

SpecOneFeeder == Init /\ [][NextOneFeeder]_vars

-----------------------------------------------------------------------------
(* What a state shows of a finished run *)

\* a response that carries a workbook
HasWorkbook == pc = "responded" /\ status = 200 /\ feeders # <<>>

\* a run whose failed-check lists were computed
Classified == HasWorkbook /\ includeCompliance /\ dates # <<>>

RunFeederIds == {feeders[k].id : k \in DOMAIN feeders}

\* the main-sheet row of a feeder of the run
RowOfFeeder(id) ==
    rows[CHOOSE k \in DOMAIN rows : rows[k].kind = "feeder" /\ rows[k].feeder = id]

CellsOf(id) == RowOfFeeder(id).cells

\* the failed-check list of a feeder: its entry of failedChecksSummary, or
\* the empty list when it has none
FailedChecksOf(id) ==
    LET mine == {k \in DOMAIN failedChecksSummary :
                    failedChecksSummary[k].feederName = FeederDoc(id).name}
    IN  IF mine = {} THEN <<>>
        ELSE failedChecksSummary[CHOOSE k \in mine : TRUE].failedChecks

LastDate == dates[Len(dates)]

\* the feeder's fetched readings dated on the calendar day of date
ReadingsOnDay(id, date) ==
    {r \in rangeReadings : r.feeder = id /\ UTCDay(r.date) = UTCDay(date)}

\* the value of the latest of a non-empty set of readings
LatestValue(rs) ==
    (CHOOSE r \in rs : \A q \in rs : q.date <= r.date).cumulativeEnergyConsumption

\* the data-sufficiency guard: a reading on the last day of the range with
\* a value > 0
GuardPassed(id) ==
    /\ ReadingsOnDay(id, LastDate) # {}
    /\ LatestValue(ReadingsOnDay(id, LastDate)) > 0

LastActual(id) == CellsOf(id)[Len(dates)].actual
LastNomination(id) == CellsOf(id)[Len(dates)].nomination

\* the resolved (carry-forward) actual of the day before the last, 0 for a
\* one-day range
ResolvedPreviousActual(id) ==
    IF Len(dates) > 1 THEN CellsOf(id)[Len(dates) - 1].actual ELSE 0

-----------------------------------------------------------------------------
(* C1 *)

\* C1: for every feeder and every day at 1-indexed position i of the range,
\* the row holds nomination = dailyEnergyUptake * i and
\* variance = actual(i) - dailyEnergyUptake * i, one cell triple per day.
C1_NominationAndVariance ==
    HasWorkbook =>
        \A id \in RunFeederIds :
            /\ Len(CellsOf(id)) = Len(dates)
            /\ \A i \in 1 .. Len(dates) :
                /\ CellsOf(id)[i].nomination = FeederDoc(id).dailyEnergyUptake * i
                /\ CellsOf(id)[i].variance =
                       CellsOf(id)[i].actual - FeederDoc(id).dailyEnergyUptake * i

\* a three-day matrix whose third day carries a reading: nomination 3x
C1_Witness ==
    /\ HasWorkbook
    /\ Len(dates) = 3
    /\ \E id \in RunFeederIds :
           /\ CellsOf(id)[3].actual > 0
           /\ CellsOf(id)[3].nomination = 3 * FeederDoc(id).dailyEnergyUptake
           /\ CellsOf(id)[3].variance < 0

-----------------------------------------------------------------------------
(* C2 *)

\* C2: actual(i) is the value of the feeder's reading dated that day when one
\* was handed to the builder, otherwise actual(i-1), with 0 before the first
\* day.
C2_CarryForward ==
    HasWorkbook =>
        \A id \in RunFeederIds :
            \A i \in 1 .. Len(dates) :
                CellsOf(id)[i].actual =
                    IF ReadingsOnDay(id, dates[i]) # {}
                    THEN LatestValue(ReadingsOnDay(id, dates[i]))
                    ELSE IF i = 1 THEN 0 ELSE CellsOf(id)[i - 1].actual

\* Scenario D: readings on days 1 and 3 only; day 2 repeats day 1
C2_Witness ==
    /\ HasWorkbook
    /\ Len(dates) = 3
    /\ \E id \in RunFeederIds :
           /\ ReadingsOnDay(id, dates[1]) # {}
           /\ ReadingsOnDay(id, dates[2]) = {}
           /\ ReadingsOnDay(id, dates[3]) # {}
           /\ CellsOf(id)[1].actual > 0
           /\ CellsOf(id)[2].actual = CellsOf(id)[1].actual
           /\ CellsOf(id)[3].actual # CellsOf(id)[2].actual

-----------------------------------------------------------------------------
(* C3 *)

\* the previous day's actual the classifier of the run works with
ClassifierPreviousActual(id) ==
    IF handler = "addAnalysisSheetsToWorkbook"
    THEN InlinePreviousDayActual(rangeReadings, id,
             ReadingMapGet(rangeReadings, id, LastDateStr(rangeReadings, id)))
    ELSE PreviousDayActual(rangeReadings, id, LastDate, Len(dates), 0)

\* C3: for a range of length > 1 the previousActual the classifier uses is
\* the matrix's resolved (carry-forward) actual of the second-to-last day,
\* also when that day has no reading of its own; for length 1 it is 0.
C3_PreviousActualIsResolved ==
    Classified =>
        \A id \in RunFeederIds :
            GuardPassed(id) =>
                ClassifierPreviousActual(id) = ResolvedPreviousActual(id)

-----------------------------------------------------------------------------
(* C4 *)

\* the stored readings of a feeder dated on the calendar day of date
StoredOnDay(id, date) ==
    {r \in readings : r.feeder = id /\ UTCDay(r.date) = UTCDay(date)}

\* no stored reading of the feeder on the last day of the range has a value > 0
NoLastDayData(id) ==
    \A r \in StoredOnDay(id, LastDate) : r.cumulativeEnergyConsumption <= 0

\* C4: a feeder with no reading dated on the last day of the range, or with a
\* value <= 0 there, gets an empty failed-check list, whatever its earlier
\* readings are.
C4_GuardYieldsEmptyList ==
    Classified =>
        \A id \in RunFeederIds :
            NoLastDayData(id) => FailedChecksOf(id) = <<>>

-----------------------------------------------------------------------------
(* C5 *)

\* C5: for a feeder that passes the guard, 'Actual D-0 < Actual D-1' is in
\* the failed-check list iff the range is longer than one day and the
\* last-day actual is <= the previous day's resolved actual.
C5_DeclineViolationIff ==
    Classified =>
        \A id \in RunFeederIds :
            GuardPassed(id) =>
                (InSeq(DeclineViolation, FailedChecksOf(id))
                    <=> (Len(dates) > 1
                         /\ LastActual(id) <= ResolvedPreviousActual(id)))

-----------------------------------------------------------------------------
(* C6 *)

NeverBothOfAPair(id) ==
    /\ ~(InSeq(NominationLow, FailedChecksOf(id))
         /\ InSeq(NominationHigh, FailedChecksOf(id)))
    /\ ~(InSeq(DailyUptakeLow, FailedChecksOf(id))
         /\ InSeq(DailyUptakeHigh, FailedChecksOf(id)))

NominationLabelsExact(id) ==
    /\ InSeq(NominationLow, FailedChecksOf(id))
           <=> 10 * LastActual(id) < 7 * LastNomination(id)
    /\ InSeq(NominationHigh, FailedChecksOf(id))
           <=> 10 * LastActual(id) > 13 * LastNomination(id)

\* C6 as stated: for every feeder and every run the list never holds both
\* labels of a pair, and '< 70% Nom' is present exactly when
\* actual < 0.7 * nomination, '> 130% Nom' exactly when
\* actual > 1.3 * nomination.
C6_AsStated ==
    Classified =>
        \A id \in RunFeederIds :
            NeverBothOfAPair(id) /\ NominationLabelsExact(id)

\* C6 as amended: the list never holds both labels of a pair, for every
\* feeder; for a feeder that passes the data-sufficiency guard the
\* nomination labels are present exactly under their thresholds.
C6_PairsExclusive ==
    Classified =>
        \A id \in RunFeederIds :
            /\ NeverBothOfAPair(id)
            /\ GuardPassed(id) => NominationLabelsExact(id)

\* Scenario C: uptake 100, day-3 actual 150 against nomination 300
C6_Witness ==
    /\ Classified
    /\ Len(dates) = 3
    /\ "f1" \in RunFeederIds
    /\ GuardPassed("f1")
    /\ LastActual("f1") = 150
    /\ LastNomination("f1") = 300
    /\ InSeq(NominationLow, FailedChecksOf("f1"))
    /\ ~InSeq(NominationHigh, FailedChecksOf("f1"))

-----------------------------------------------------------------------------
(* C7 *)

\* C7: a one-day range never yields a day-over-day label; for a longer range
\* the daily-uptake labels are decided on the delta actual - previousActual
\* against dailyEnergyUptake with the 0.7x / 1.3x thresholds.
C7_DailyUptakeOnDelta ==
    Classified =>
        \A id \in RunFeederIds :
            /\ Len(dates) = 1 =>
                   /\ ~InSeq(DeclineViolation, FailedChecksOf(id))
                   /\ ~InSeq(DailyUptakeLow, FailedChecksOf(id))
                   /\ ~InSeq(DailyUptakeHigh, FailedChecksOf(id))
            /\ (Len(dates) > 1 /\ GuardPassed(id)) =>
                   LET delta == LastActual(id) - ResolvedPreviousActual(id)
                       uptake == FeederDoc(id).dailyEnergyUptake
                   IN  /\ InSeq(DailyUptakeLow, FailedChecksOf(id))
                              <=> 10 * delta < 7 * uptake
                       /\ InSeq(DailyUptakeHigh, FailedChecksOf(id))
                              <=> (10 * delta >= 7 * uptake
                                   /\ 10 * delta > 13 * uptake)

-----------------------------------------------------------------------------
(* C8 *)

\* the feeder's row was appended to the analysis sheet
InSheet(id, category) ==
    /\ category \in DOMAIN sheets
    /\ \E k \in DOMAIN sheets[category] :
           sheets[category][k].kind = "feeder" /\ sheets[category][k].feeder = id

\* C8: a feeder's row is in 'No Flags' iff the feeder passed the guard (a
\* reading on the last day of the range with actual > 0) and its
\* failed-check list is empty.
C8_NoFlagsIff ==
    Classified =>
        \A id \in RunFeederIds :
            InSheet(id, NoFlags)
                <=> (GuardPassed(id) /\ FailedChecksOf(id) = <<>>)

-----------------------------------------------------------------------------
(* C9 *)

SummaryRowsOf(id) ==
    {k \in DOMAIN summarySheet : summarySheet[k].feederName = FeederDoc(id).name}

\* C9: in every report produced with compliance analysis, each feeder with
\* at least one failed check has exactly one row in 'Failed Checks Summary'
\* carrying region, hub, feeder name, date and its labels joined by ', ',
\* and a feeder with no failed check has none.
C9_SummaryRowPerFailedFeeder ==
    Classified =>
        \A id \in RunFeederIds :
            IF FailedChecksOf(id) = <<>> THEN SummaryRowsOf(id) = {}
            ELSE /\ Cardinality(SummaryRowsOf(id)) = 1
                 /\ \A k \in SummaryRowsOf(id) :
                        /\ summarySheet[k].region = FeederDoc(id).region
                        /\ summarySheet[k].businessHub = FeederDoc(id).businessHub
                        /\ summarySheet[k].failedChecks =
                               Join(FailedChecksOf(id), ", ")

-----------------------------------------------------------------------------
(* C10 *)

\* C10: a feeder with no reading on the last day of the range, or a last-day
\* actual <= 0, is in none of the eight category sheets and has no summary
\* row, even with readings on earlier days.
C10_InsufficientDataInNoSheet ==
    Classified =>
        \A id \in RunFeederIds :
            NoLastDayData(id) =>
                /\ \A c \in SheetNames : ~InSheet(id, c)
                /\ SummaryRowsOf(id) = {}

-----------------------------------------------------------------------------
(* C11 *)

\* C11: the row of a feeder that passes the guard is in 'Positive Variance'
\* iff its last-day variance (actual - nomination) is >= 0, whichever rule
\* labels fired; variance 0 is in 'Positive Variance' and in 'No Flags'.
C11_PositiveVarianceIff ==
    Classified =>
        \A id \in RunFeederIds :
            GuardPassed(id) =>
                (InSheet(id, PositiveVariance)
                    <=> LastActual(id) - LastNomination(id) >= 0)

-----------------------------------------------------------------------------
(* C12 *)

\* Scenario B: the run covers two days and hands the classifier readings of
\* f1 (dailyEnergyUptake 100) of 100 on day 1 and 90 on day 2
ScenarioB ==
    /\ Classified
    /\ Len(dates) = 2
    /\ "f1" \in RunFeederIds
    /\ ReadingsOnDay("f1", dates[1]) # {}
    /\ ReadingsOnDay("f1", dates[2]) # {}
    /\ \A r \in ReadingsOnDay("f1", dates[1]) : r.cumulativeEnergyConsumption = 100
    /\ \A r \in ReadingsOnDay("f1", dates[2]) : r.cumulativeEnergyConsumption = 90

\* the entries of the failed-check list built for the run that belong to f1
ScenarioBEntries ==
    {k \in DOMAIN failedChecksSummary :
        failedChecksSummary[k].feederName = FeederDoc("f1").name}

\* C12 as stated: in Scenario B the feeder's entry carries the failed-check
\* list ["Actual D-0 < Actual D-1"].
C12_AsStated ==
    ScenarioB =>
        /\ ScenarioBEntries # {}
        /\ \A k \in ScenarioBEntries :
               failedChecksSummary[k].failedChecks = <<DeclineViolation>>

\* C12 as amended: in Scenario B DeclineViolation fires, and the feeder's one
\* entry carries the list ["Actual D-0 < Actual D-1", "< 70% Nom",
\* "< 70% Daily Uptake"]: 90 is below 0.7 * 200 and the delta -10 is below
\* 0.7 * 100.
C12_ScenarioBList ==
    ScenarioB =>
        /\ InSeq(DeclineViolation, FailedChecksOf("f1"))
        /\ Cardinality(ScenarioBEntries) = 1
        /\ \A k \in ScenarioBEntries :
               failedChecksSummary[k].failedChecks =
                   <<DeclineViolation, NominationLow, DailyUptakeLow>>

C12_Witness ==
    /\ ScenarioB
    /\ handler = "generateFeederSpecificReport"
    /\ CellsOf("f1")[1].actual = 100
    /\ CellsOf("f1")[2].actual = 90
    /\ InSeq(DeclineViolation, FailedChecksOf("f1"))

-----------------------------------------------------------------------------
(* C13 *)

\* a report was produced by a handler that expands the request's range
RangeExpanded ==
    /\ HasWorkbook
    /\ handler \in {"generateFeederSpecificReport", "generateCustomReport",
                    "sendReportByEmail"}

\* a report was produced by a handler that expands calculateDateRange's range
DayExpanded ==
    /\ HasWorkbook
    /\ handler \in {"generateDailyAllFeedersReportBuffer",
                    "sendDailyAllFeedersReport"}

\* the UTC midnights of the calendar days from firstDay to lastDay
DaysFromTo(firstDay, lastDay) ==
    [i \in 1 .. (lastDay - firstDay + 1) |-> (firstDay + i - 1) * DayLen]

\* C13: for start <= end getDatesInRange returns the calendar days from
\* start's UTC day to end's UTC day inclusive, each once, as UTC midnights in
\* strictly increasing order; start and end on one UTC day (end at
\* 23:59:59.999 included) give exactly one element.
C13_DaysOfRange ==
    /\ (RangeExpanded /\ request.startDate <= request.endDate) =>
           /\ dates = DaysFromTo(UTCDay(request.startDate), UTCDay(request.endDate))
           /\ \A i \in DOMAIN dates : dates[i] = StartOfDay(dates[i])
           /\ \A i, j \in DOMAIN dates : i < j => dates[i] < dates[j]
           /\ UTCDay(request.startDate) = UTCDay(request.endDate)
                  => Len(dates) = 1
    /\ DayExpanded => dates = <<StartOfDay(request.startDate)>>

\* a range from the last instant of day 1 to the first instant of day 3
C13_Witness ==
    /\ RangeExpanded
    /\ request.startDate = DayLen - 1
    /\ request.endDate = 2 * DayLen
    /\ dates = <<0, DayLen, 2 * DayLen>>

-----------------------------------------------------------------------------
(* C14 *)

\* a handler that takes a start and an end answered a request
RangeRequested ==
    /\ pc = "responded"
    /\ handler \in {"generateFeederSpecificReport", "generateCustomReport",
                    "sendReportByEmail"}

\* C14: when the end date precedes the start date no day sequence is
\* returned and the invocation that supplied the range ends in an error
\* outcome with no document.
C14_InvalidRangeFails ==
    (RangeRequested /\ request.endDate < request.startDate) =>
        /\ dates = <<>>
        /\ status >= 400
        /\ delivered = NothingDelivered

-----------------------------------------------------------------------------
(* C15 *)

ReportEntryPoints ==
    {"generateDailyAllFeedersReportBuffer", "sendDailyAllFeedersReport",
     "generateSpecificDateReport", "generateFeederSpecificReport",
     "sendReportByEmail", "generateCustomReport"}

\* C15: whenever the feeder set resolved for an invocation is empty (here:
\* the Feeder collection holds no document) the invocation reports not found
\* and hands out no document: no workbook in the response, no email
\* attachment, in every entry point, sendDailyAllFeedersReport included.
C15_NoFeedersNoDocument ==
    (pc = "responded" /\ handler \in ReportEntryPoints /\ directory = {}) =>
        /\ status = 404
        /\ delivered = NothingDelivered

-----------------------------------------------------------------------------
(* C16 *)

\* the request names a region that Region.findOne does not resolve
UnknownRegionRequested ==
    /\ pc = "responded"
    /\ handler \in {"generateSpecificDateReport", "sendReportByEmail",
                    "generateCustomReport"}
    /\ request.region # NoFilter
    /\ RegionFindOne(request.region) = NotFound

\* C16: in generateSpecificDateReport, sendReportByEmail and
\* generateCustomReport a region name that resolves to no region is reported
\* as not found, and the invocation stops before any reading is fetched and
\* before any feeder is rendered.
C16_UnknownFilterAborts ==
    UnknownRegionRequested =>
        /\ status = 404
        /\ rangeReadings = {}
        /\ rows = <<>>
        /\ delivered = NothingDelivered

-----------------------------------------------------------------------------
(* C17 *)

\* the categories the classification of the run assigns the feeder to
AssignedCategories(id) ==
    {c \in RuleLabels : InSeq(c, FailedChecksOf(id))}
    \cup (IF GuardPassed(id) /\ LastActual(id) - LastNomination(id) >= 0
          THEN {PositiveVariance} ELSE {})
    \cup (IF GuardPassed(id) /\ FailedChecksOf(id) = <<>>
          THEN {NoFlags} ELSE {})

\* C17: in every report run with compliance analysis, a feeder assigned to
\* a rule, variance or no-flags category has its rendered main-sheet row
\* (the row itself, not a recomputation) appended to that category's sheet.
C17_AssignedRowsAreCopied ==
    Classified =>
        \A id \in RunFeederIds :
            \A c \in AssignedCategories(id) :
                /\ c \in DOMAIN sheets
                /\ \E k \in DOMAIN sheets[c] : sheets[c][k] = RowOfFeeder(id)

-----------------------------------------------------------------------------
(* C18 *)

\* C18: in sendReportByEmail and generateCustomReport the produced workbook
\* holds the analysis category sheets when includeAnalysis is true and holds
\* none of them when it is false or absent.
C18_FlagSelectsAnalysisSheets ==
    (HasWorkbook /\ handler \in {"sendReportByEmail", "generateCustomReport"}) =>
        IF request.includeAnalysis
        THEN DOMAIN sheets = SheetNames
        ELSE DOMAIN sheets = {}

-----------------------------------------------------------------------------
(* C19 *)

\* the cache holds an entry read from the store for exactly this pair
EntryFor(startDate, endDate) ==
    \E k \in DOMAIN readingsCache :
        /\ readingsCache[k].startDate = startDate
        /\ readingsCache[k].endDate = endDate

\* the step in which a run's call runs up to its await, judged against the
\* cache and the clock it found
CallStartsRight(run) ==
    LET call == calls'[run]
        hit == /\ EntryFor(call.startDate, call.endDate)
               /\ now - cacheTimestamp < CACHE_TTL
    IN  IF hit
        THEN /\ call.pc = "returned"
             /\ call.source = "cache"
             /\ \E k \in DOMAIN readingsCache : call.result = readingsCache[k]
             /\ UNCHANGED <<readingsCache, cacheTimestamp>>
        ELSE /\ call.pc = "querying"
             /\ call.source = "store"

\* the step in which a run's call resumes with the store's answer
CallReplacesEntry(run) ==
    /\ calls'[run].source = "store"
    /\ calls'[run].result = calls[run].result
    /\ \E k \in DOMAIN readingsCache' :
           /\ DOMAIN readingsCache' = {k}
           /\ readingsCache'[k] = calls[run].result
    /\ cacheTimestamp' = calls[run].now

\* C19: the readings cache never holds more than one entry; a call is
\* answered from the cache, without a store query, only when the entry was
\* stored for the call's exact (startDate, endDate) pair and less than
\* CACHE_TTL has passed since cacheTimestamp; otherwise it queries the store
\* and replaces the entry.
C19_SingleEntryExactKeyTTL ==
    [][ /\ Cardinality(DOMAIN readingsCache') <= 1
        /\ \A run \in Runs :
               /\ (calls[run].pc = "idle" /\ calls'[run].pc # "idle")
                      => CallStartsRight(run)
               /\ (calls[run].pc = "querying" /\ calls'[run].pc = "fetched")
                      => UNCHANGED <<readingsCache, cacheTimestamp>>
               /\ (calls[run].pc = "fetched" /\ calls'[run].pc = "returned")
                      => CallReplacesEntry(run)
      ]_vars

\* one run was answered from the cache; later, with the same entry still in
\* place but older than CACHE_TTL, the other run had to query the store
C19_Witness ==
    /\ calls["r1"].pc = "returned"
    /\ calls["r1"].source = "cache"
    /\ calls["r1"].result.readings # {}
    /\ calls["r2"].pc = "querying"
    /\ calls["r2"].startDate = calls["r1"].startDate
    /\ calls["r2"].endDate = calls["r1"].endDate
    /\ EntryFor(calls["r2"].startDate, calls["r2"].endDate)
    /\ calls["r2"].now - cacheTimestamp >= CACHE_TTL

-----------------------------------------------------------------------------
(* C20 *)

\* C20: under any interleaving of runs calling getAllReadingsInRange with
\* different ranges, the list a call holds was read from the store for
\* exactly its own (startDate, endDate) pair: runs evict each other's entry
\* and never receive another range's readings.
C20_OwnRangeOnly ==
    \A run \in Runs :
        calls[run].pc \in {"fetched", "returned"} =>
            /\ calls[run].result.startDate = calls[run].startDate
            /\ calls[run].result.endDate = calls[run].endDate
            /\ \A r \in calls[run].result.readings :
                   r.date >= calls[run].startDate /\ r.date <= calls[run].endDate

\* both runs hold lists for different ranges, the second answered from the
\* store after evicting the first run's entry and then again from the cache
C20_Witness ==
    /\ calls["r1"].pc = "returned"
    /\ calls["r2"].pc = "returned"
    /\ calls["r1"].source = "store"
    /\ calls["r2"].source = "cache"
    /\ calls["r1"].endDate # calls["r2"].endDate
    /\ calls["r1"].result.readings # calls["r2"].result.readings
    /\ ~EntryFor(calls["r1"].startDate, calls["r1"].endDate)
    /\ EntryFor(calls["r2"].startDate, calls["r2"].endDate)


-----------------------------------------------------------------------------
(* C21 *)

\* C21: after any sequence of createFeederReading, submitTodayReadings and
\* updateFeederReading the store holds at most one reading per feeder and
\* calendar day.
C21_OneReadingPerFeederDay ==
    \A r \in readings, q \in readings :
        (r.feeder = q.feeder /\ UTCDay(r.date) = UTCDay(q.date)) => r = q

-----------------------------------------------------------------------------
(* C22 *)

\* the (date, value) of a document as it is stored
SnapshotOf(r) ==
    [date |-> r.date,
     cumulativeEnergyConsumption |-> r.cumulativeEnergyConsumption]

\* after the step the feeder of r has a document whose history is r's
\* history with r's snapshot appended, and nothing else
RewrittenWithSnapshot(r) ==
    \E q \in readings' :
        /\ q.feeder = r.feeder
        /\ q.history = Append(r.history, SnapshotOf(r))

\* C22: every operation that changes a stored reading's
\* cumulativeEnergyConsumption (updateFeederReading, the update branch of
\* submitTodayReadings) appends exactly the pre-mutation (date, value)
\* snapshot to the reading's history, never the post-mutation value.
C22_ExactlyThePreMutationSnapshot ==
    [][ /\ \A r \in readings, v \in StoreValues :
               (updateFeederReading(r, v) /\ v # r.cumulativeEnergyConsumption)
                   => RewrittenWithSnapshot(r)
        /\ \A clock \in StoreDates, v \in StoreValues :
               \A times \in HandlingTimes(clock, 1) :
                   (/\ submitTodayReadings(clock,
                           <<[feeder |-> "f1", cumulativeEnergyConsumption |-> v]>>,
                           times)
                    /\ status' = 200)
                   => \A r \in readings \ readings' :
                          v # r.cumulativeEnergyConsumption
                              => RewrittenWithSnapshot(r)
      ]_vars

-----------------------------------------------------------------------------
(* C23 *)

IsPrefix(s, t) == Len(s) <= Len(t) /\ SubSeq(t, 1, Len(s)) = s

\* the document r is still stored after the step, untouched or rewritten
\* with a history that extends the one it had
HistoryKept(r) ==
    \/ r \in readings'
    \/ \E q \in readings' \ readings :
           /\ q.feeder = r.feeder
           /\ IsPrefix(r.history, q.history)

\* C23 as stated: for every operation the history before the operation is a
\* prefix of the history after it; no operation discards recorded history.
C23_AsStated ==
    [][\A r \in readings : HistoryKept(r)]_vars

\* C23: every operation other than deleteFeederReading leaves each stored
\* reading in the store with a history that has the former history as a
\* prefix; deleteFeederReading removes one reading together with its
\* history and leaves the others untouched.
C23_AppendOnlyWhileStored ==
    [][ IF handler' = "deleteFeederReading"
        THEN \E r \in readings : readings' = readings \ {r}
        ELSE \A r \in readings : HistoryKept(r) ]_vars

\* updateFeederReading rewrote a reading that had been updated before
C23_Witness ==
    /\ pc = "responded"
    /\ handler = "updateFeederReading"
    /\ status = 200
    /\ \E r \in readings :
           /\ Len(r.history) = 3
           /\ r.history[1].cumulativeEnergyConsumption
                  # r.history[3].cumulativeEnergyConsumption

-----------------------------------------------------------------------------
(* C24 *)

\* C24: after any sequence of createFeeder, updateFeeder, createBusinessHub,
\* updateBusinessHub and the deletes, every stored feeder's region equals
\* the region of the business hub that owns it.
C24_FeederRegionIsHubRegion ==
    \A id \in directory :
        feederDocs[id].businessHub \in DOMAIN businessHubs =>
            feederDocs[id].region
                = businessHubs[feederDocs[id].businessHub].region

-----------------------------------------------------------------------------
(* C25 *)

\* indices (row number - 4) of the region banners and of the feeder rows
BannerRows == {i \in DOMAIN rows : rows[i].kind = "region"}

FeederRows == {i \in DOMAIN rows : rows[i].kind = "feeder"}

\* positions in the query result of the feeders of a region
QueryPositions(regionName) ==
    {k \in DOMAIN feeders : feeders[k].region = regionName}

\* the row of the feeder at position k of the query result
RowOfPosition(k) == CHOOSE i \in FeederRows : rows[i].feeder = feeders[k].id

\* C25: populateFeederData lays the rows from row 5 on: one banner per
\* distinct region, immediately before the feeders of that region; the
\* feeders of a region keep their relative query order, each on its own
\* row; the serials run 1..N over the feeder rows, across regions.
C25_RegionBlocksAndSerials ==
    HasWorkbook =>
        /\ DOMAIN rows = BannerRows \cup FeederRows
        /\ {rows[i].region : i \in BannerRows}
               = {feeders[k].region : k \in DOMAIN feeders}
        /\ \A i \in BannerRows, j \in BannerRows :
               rows[i].region = rows[j].region => i = j
        /\ Cardinality(FeederRows) = Len(feeders)
        /\ \A k \in DOMAIN feeders :
               \E i \in FeederRows : rows[i].feeder = feeders[k].id
        /\ \A i \in BannerRows :
               LET n == Cardinality(QueryPositions(rows[i].region))
               IN  /\ n >= 1
                   /\ i + n <= Len(rows)
                   /\ \A j \in (i + 1) .. (i + n) :
                          /\ rows[j].kind = "feeder"
                          /\ rows[j].region = rows[i].region
        /\ \A k \in DOMAIN feeders, l \in DOMAIN feeders :
               (k < l /\ feeders[k].region = feeders[l].region)
                   => RowOfPosition(k) < RowOfPosition(l)
        /\ \A i \in FeederRows :
               rows[i].serial = Cardinality({j \in FeederRows : j <= i})

\* two feeders of two regions were laid out: banner, feeder 1, banner,
\* feeder 2
C25_Witness ==
    /\ HasWorkbook
    /\ Len(rows) = 4
    /\ rows[1].kind = "region"
    /\ rows[3].kind = "region"
    /\ rows[4].serial = 2

-----------------------------------------------------------------------------
(* C26 *)

\* C26: each of the eight category sheets holds the header block of the
\* 'Feeder Performance' sheet (values and styles of rows 1-4, column
\* widths, the merged regions inside rows 1-4), copied before any data row;
\* every appended data row lands below row 4, on row rowCount + 1.
C26_HeaderBlockThenRows ==
    (pc = "responded" /\ DOMAIN sheets = SheetNames) =>
        \A c \in SheetNames :
            /\ headers[c].labels = HeaderBlock(dates).labels
            /\ headers[c].widths = HeaderBlock(dates).widths
            /\ headers[c].merges = HeaderBlock(dates).merges
            /\ \A k \in DOMAIN sheets[c] : headers[c].rowCount + k > 4

-----------------------------------------------------------------------------
(* C27 *)

\* C27: the two classifiers agree: for the feeders, the dates and the
\* readings of a run, the entries addAnalysisSheetsToWorkbook's inline
\* checks push (failed-check list and date of every flagged feeder) are the
\* entries populateFeederData pushes with runComplianceChecks.
C27_ClassifiersAgree ==
    (pc = "responded" /\ handler = "addAnalysisSheetsToWorkbook") =>
        failedChecksSummary = FailedEntries(RowOrder(feeders), dates, rangeReadings)

-----------------------------------------------------------------------------
(* C28 *)

\* C28: every invocation of a report handler sends exactly one HTTP
\* response on every path; in particular sendDailyAllFeedersReport sets no
\* status and sends no json after generateDailyAllFeedersReportBuffer has
\* answered 404 or 500.
C28_ExactlyOneResponse ==
    (/\ pc = "responded"
     /\ handler \in ReportEntryPoints \ {"generateDailyAllFeedersReportBuffer"})
        => responses = 1

-----------------------------------------------------------------------------
(* C29 *)

\* C29: under any interleaving of getAllReadingsInRange calls
\* cacheTimestamp never decreases, and a call replaces the cache entry only
\* if no call that started after it has written the cache: an earlier
\* call whose query finishes later does not overwrite a later call's entry
\* and timestamp.
C29_LastStartedCallWins ==
    [][ /\ cacheTimestamp' >= cacheTimestamp
        /\ \A run \in Runs :
               UpdateCache(run) => calls[run].now >= cacheTimestamp ]_vars

-----------------------------------------------------------------------------
(* C30 *)

ReadingMutations ==
    {"createFeederReading", "updateFeederReading", "deleteFeederReading",
     "submitTodayReadings"}

\* C30: no reading mutation changes readingsCache or cacheTimestamp; so a
\* call with the key of the cached entry, started within CACHE_TTL of the
\* entry's timestamp, returns the list the earlier call fetched, whatever
\* was created, updated or deleted in the store in between.
C30_MutationsLeaveTheCache ==
    [][ /\ (pc = "idle" /\ handler' \in ReadingMutations)
               => UNCHANGED <<readingsCache, cacheTimestamp>>
        /\ \A run \in StaleRuns :
               (/\ getAllReadingsInRange(run, StaleRange[1], StaleRange[2])
                /\ cacheKey(StaleRange[1], StaleRange[2]) \in DOMAIN readingsCache
                /\ now - cacheTimestamp < CACHE_TTL)
               => /\ calls'[run].pc = "returned"
                  /\ calls'[run].result
                         = readingsCache[cacheKey(StaleRange[1], StaleRange[2])]
      ]_vars

\* a call was answered from the cache with a list that is no longer what
\* the store holds for its range, after a reading of the range was updated
C30_Witness ==
    \E run \in StaleRuns :
        /\ calls[run].pc = "returned"
        /\ calls[run].source = "cache"
        /\ calls[run].result.readings
               # FindReadingsInRange(calls[run].startDate, calls[run].endDate)
        /\ \E r \in readings : r.history # <<>>

=============================================================================
